---- MODULE Spec2Model ----
(***************************************************************************)
(* Conversational dispatch orchestrator of onepath-interview-prep.         *)
(*                                                                         *)
(* The repository holds several independent programs that implement the    *)
(* same design.  A behaviour of this module exercises one of them, named   *)
(* by the variable system (SpecOrchestrator is the fourth, Spec draws one   *)
(* of the others):                                                         *)
(*   "pricing"      the two pricing engines as pure functions              *)
(*                  (PricingService.calculate_pricing of                   *)
(*                  langchain_agent_system.py and                          *)
(*                  SimpleAgentDemo.calculate_pricing of simple_demo.py)   *)
(*   "simple"       SimpleAgentDemo of simple_demo.py                      *)
(*   "langchain"    OnepathAgentOrchestrator of langchain_agent_system.py  *)
(*   "orchestrator" AgentOrchestrator of agent_orchestrator.py             *)
(* and two more that Spec draws, for functions of the orchestrator that    *)
(* read no state:                                                          *)
(*   "planner"      AgentOrchestrator._determine_agent_chain               *)
(*   "extractor"    the three extractors, called on one text               *)
(*   "synthesizer"  the next steps of the response of                      *)
(*                  process_service_request, for every way its stages can  *)
(*                  have gone                                              *)
(* SpecConcurrent is the orchestrator with two customers:                  *)
(*   "concurrent"   AgentOrchestrator, two requests and a follow-up        *)
(* SpecRetries draws the orchestrator or                                   *)
(*   "tools"        one call of AvailabilityTool.execute or                *)
(*                  PricingTool.execute of tool.py                         *)
(*                                                                         *)
(* Money is in cents.  Confidences are in hundredths (0.7 is 70).          *)
(***************************************************************************)
EXTENDS Integers, Sequences, FiniteSets, TLC

(***************************************************************************)
(* Bounds of the model.                                                    *)
(***************************************************************************)
\* seconds of wall-clock time a run may see (simple_demo and langchain name
\* a request after the second it was stored in)
MaxClock == 2
\* customer messages the session store may hold, over all of its sessions
MaxTurns == 3
\* top-level requests the orchestrator accepts (each gets a fresh uuid4)
MaxWorkflows == 1
\* customer messages the orchestrator accepts, first requests and follow-ups
MaxCalls == 2
\* calls of the extractors on one text
MaxExtractions == 2

(***************************************************************************)
(* Text.  Python's str.lower() and the substring test `p in s`.            *)
(***************************************************************************)
UpperCase == "ABCDEFGHIJKLMNOPQRSTUVWXYZ"
LowerCase == "abcdefghijklmnopqrstuvwxyz"

RECURSIVE IndexOf(_, _, _)
IndexOf(c, s, i) ==
    IF i > Len(s) THEN 0
    ELSE IF SubSeq(s, i, i) = c THEN i ELSE IndexOf(c, s, i + 1)

LowerChar(c) ==
    LET k == IndexOf(c, UpperCase, 1)
    IN  IF k = 0 THEN c ELSE SubSeq(LowerCase, k, k)

RECURSIVE lower(_)
lower(s) ==
    IF Len(s) = 0 THEN ""
    ELSE LowerChar(SubSeq(s, 1, 1)) \o lower(SubSeq(s, 2, Len(s)))

\* p in s
In(p, s) == \E i \in 1..(Len(s) - Len(p) + 1) : SubSeq(s, i, i + Len(p) - 1) = p

\* any(p in s for p in patterns)
AnyIn(patterns, s) == \E p \in patterns : In(p, s)

\* the customer messages of a run
MsgAcBroken == "My AC is broken. Can someone fix it this week?"
MsgBundleThermostat == "Can you add a thermostat installation too and bundle it?"
MsgAlsoFilter == "Also replace the air filter"
MsgHowMuch == "How much does it cost?"
Messages == {MsgAcBroken, MsgBundleThermostat, MsgAlsoFilter, MsgHowMuch}

\* a follow-up that changes the service
MsgDifferentInstead == "Send a different technician instead"

\* every text of the model: the messages, the follow-up above, and texts
\* that only the extractors are called on, where several categories match
\* or none does
Texts ==
    Messages
    \cup {MsgDifferentInstead,
          "The furnace leaks water and the power is out, no rush but soon",
          "Water heater pipe leak, fix ASAP or whenever",
          "Toilet drain and outlet wiring, when possible",
          "Lights flicker, I am flexible",
          "Hello there"}

\* message.lower(), computed once per message
Lowered == [m \in Texts |-> lower(m)]

(***************************************************************************)
(* Pricing engines.                                                        *)
(***************************************************************************)
ServiceTypes == {"ac_repair", "heating", "plumbing", "electrical"}
\* what a caller may pass as service_type: a table row or anything else
ServiceInputs == ServiceTypes \cup {"unknown"}
UrgencyInputs == {"emergency", "high", "normal", "low", "unset"}
\* what a caller may pass in additional_services; gutter_cleaning is in no
\* price table
AddonIds == {"thermostat_install", "filter_replacement", "duct_cleaning",
             "maintenance_plan", "gutter_cleaning"}

\* sum of f[x] over the elements of S
RECURSIVE SumOver(_, _)
SumOver(f, S) ==
    IF S = {} THEN 0
    ELSE LET x == CHOOSE y \in S : TRUE IN f[x] + SumOver(f, S \ {x})

\* amount * (pct / 100)
PctOf(amount, pct) == (amount * pct) \div 100

PricingService_base_prices ==
    [ac_repair  |-> [diagnostic |-> 7500, repair |-> 15000],
     heating    |-> [diagnostic |-> 7500, repair |-> 17500],
     plumbing   |-> [diagnostic |-> 5000, repair |-> 12500],
     electrical |-> [diagnostic |-> 10000, repair |-> 20000]]

PricingService_addon_prices ==
    [thermostat_install |-> 20000, filter_replacement |-> 2500,
     duct_cleaning |-> 30000, maintenance_plan |-> 15000]

SimpleAgentDemo_base_prices ==
    [ac_repair |-> 15000, heating |-> 17500, plumbing |-> 12500,
     electrical |-> 20000]

SimpleAgentDemo_addon_prices ==
    [thermostat_install |-> 20000, filter_replacement |-> 2500,
     duct_cleaning |-> 30000]

\* sum(addon_prices.get(service, 0) for service in additional_services)
addon_cost(addon_prices, additional_services) ==
    SumOver([a \in additional_services |->
                IF a \in DOMAIN addon_prices THEN addon_prices[a] ELSE 0],
            additional_services)

\* a bundle of two or more add-ons only
bundle_discount_two_or_more(additional_services) ==
    IF Cardinality(additional_services) > 1 THEN 15 ELSE 0

\* bundle_discount = 0.15 if additional_services else 0      (in percent)
bundle_discount(additional_services) ==
    IF additional_services # {} THEN 15 ELSE 0

\* {"emergency": 75, "high": 25}.get(urgency, 0)
urgency_surcharge(urgency) ==
    CASE urgency = "emergency" -> 7500
      [] urgency = "high" -> 2500
      [] OTHER -> 0

\* the tax left out of the amount due
final_total_without_tax(total, tax) == total

\* final_total = total + tax
final_total(total, tax) == total + tax

\* a breakdown that counts the urgency surcharge into the subtotal, as the
\* printed bundle pricing of quick_demo.py does (250 + 200 = 450)
breakdown_surcharge_in_subtotal(base_cost, addon, additional_services, urgency) ==
    LET surcharge == urgency_surcharge(urgency)
        subtotal == base_cost + surcharge + addon
        discount_amount == PctOf(subtotal, bundle_discount(additional_services))
        total == subtotal - discount_amount
        tax == PctOf(total, 8)
    IN  [base_cost |-> base_cost,
         addon_cost |-> addon,
         subtotal |-> subtotal,
         bundle_discount |-> discount_amount,
         urgency_surcharge |-> surcharge,
         tax |-> tax,
         total |-> final_total(total, tax),
         savings |-> discount_amount]

\* a breakdown that taxes the discounted subtotal and adds the surcharge
\* untaxed
breakdown_tax_before_surcharge(base_cost, addon, additional_services, urgency) ==
    LET subtotal == base_cost + addon
        discount_amount == PctOf(subtotal, bundle_discount(additional_services))
        surcharge == urgency_surcharge(urgency)
        total == subtotal - discount_amount + surcharge
        tax == PctOf(subtotal - discount_amount, 8)
    IN  [base_cost |-> base_cost,
         addon_cost |-> addon,
         subtotal |-> subtotal,
         bundle_discount |-> discount_amount,
         urgency_surcharge |-> surcharge,
         tax |-> tax,
         total |-> final_total(total, tax),
         savings |-> discount_amount]

\* lines shared by the two engines: from subtotal to the returned breakdown
breakdown(base_cost, addon, additional_services, urgency) ==
    LET subtotal == base_cost + addon
        discount_amount == PctOf(subtotal, bundle_discount(additional_services))
        surcharge == urgency_surcharge(urgency)
        total == subtotal - discount_amount + surcharge
        tax == PctOf(total, 8)
    IN  [base_cost |-> base_cost,
         addon_cost |-> addon,
         subtotal |-> subtotal,
         bundle_discount |-> discount_amount,
         urgency_surcharge |-> surcharge,
         tax |-> tax,
         total |-> final_total(total, tax),
         savings |-> discount_amount]

PricingService_calculate_pricing(service_type, additional_services, urgency) ==
    LET row == IF service_type \in DOMAIN PricingService_base_prices
               THEN PricingService_base_prices[service_type]
               ELSE PricingService_base_prices["ac_repair"]
    IN  breakdown(row.diagnostic + row.repair,
                  addon_cost(PricingService_addon_prices, additional_services),
                  additional_services, urgency)

SimpleAgentDemo_calculate_pricing(service_type, additional_services, urgency) ==
    LET base == IF service_type \in DOMAIN SimpleAgentDemo_base_prices
                THEN SimpleAgentDemo_base_prices[service_type]
                ELSE 15000
    IN  breakdown(base,
                  addon_cost(SimpleAgentDemo_addon_prices, additional_services),
                  additional_services, urgency)

Engines == {"PricingService", "SimpleAgentDemo"}

calculate_pricing(engine, service_type, additional_services, urgency) ==
    IF engine = "PricingService"
    THEN PricingService_calculate_pricing(service_type, additional_services, urgency)
    ELSE SimpleAgentDemo_calculate_pricing(service_type, additional_services, urgency)

NoBreakdown ==
    [base_cost |-> 0, addon_cost |-> 0, subtotal |-> 0, bundle_discount |-> 0,
     urgency_surcharge |-> 0, tax |-> 0, total |-> 0, savings |-> 0]

(***************************************************************************)
(* Python dicts are functions; a key is present when it is in the DOMAIN.  *)
(***************************************************************************)
\* f with key k set to v (dict assignment: insert or overwrite)
Put(f, k, v) == [x \in DOMAIN f \cup {k} |-> IF x = k THEN v ELSE f[x]]

\* the empty dict
EmptyDict == [x \in {} |-> 0]

\* dict.get(key, default)
Get(d, key, default) == IF key \in DOMAIN d THEN d[key] ELSE default

(***************************************************************************)
(* Optional values: None is the empty sequence, a value x is <<x>>.        *)
(***************************************************************************)
None == <<>>
Some(x) == <<x>>
IsSome(o) == o # <<>>
The(o) == o[1]

(***************************************************************************)
(* SimpleAgentDemo (simple_demo.py).                                       *)
(***************************************************************************)
SimpleAgentDemo_analyze_customer_request(message) ==
    LET message_lower == Lowered[message]
        service_type ==
            IF AnyIn({"ac", "air conditioning", "cooling"}, message_lower)
            THEN "ac_repair"
            ELSE IF AnyIn({"heat", "heating", "furnace"}, message_lower)
            THEN "heating"
            ELSE IF AnyIn({"plumb", "water", "leak"}, message_lower)
            THEN "plumbing"
            ELSE IF AnyIn({"electric", "power", "outlet"}, message_lower)
            THEN "electrical"
            ELSE "ac_repair"
        urgency ==
            IF AnyIn({"emergency", "urgent", "asap", "broken"}, message_lower)
            THEN "emergency"
            ELSE IF AnyIn({"this week", "soon", "today"}, message_lower)
            THEN "high"
            ELSE IF AnyIn({"whenever", "flexible"}, message_lower)
            THEN "low"
            ELSE "normal"
        additional_services ==
            (IF In("thermostat", message_lower) THEN {"thermostat_install"} ELSE {})
            \cup
            (IF In("filter", message_lower) THEN {"filter_replacement"} ELSE {})
    IN  [service_type |-> service_type,
         urgency |-> urgency,
         additional_services |-> additional_services,
         requires_scheduling |-> AnyIn({"week", "today", "tomorrow"}, message_lower),
         requires_pricing |-> AnyIn({"cost", "price", "how much"}, message_lower),
         bundle_request |-> AnyIn({"add", "bundle", "also", "too"}, message_lower)]

\* the analysis of each message, computed once
SimpleAnalysis == [m \in Messages |-> SimpleAgentDemo_analyze_customer_request(m)]

\* slots are dated from tomorrow (day 1) on; the print-out is left out
SimpleAgentDemo_check_calendar_availability(service_type, urgency) ==
    LET slots ==
            IF urgency = "emergency"
            THEN <<[day |-> 1, technician |-> "Emergency Tech Mike", surcharge |-> 75]>>
            ELSE [i \in 1..3 |->
                    [day |-> i,
                     technician |-> <<"Tech Sarah", "Tech John", "Tech Mike">>[i],
                     surcharge |-> 0]]
    IN  [available_slots |-> slots,
         earliest_available |-> slots[1].day,
         emergency_available |-> (urgency = "emergency")]

SimpleAgentDemo_determine_next_steps(analysis, availability, pricing) ==
    (IF IsSome(availability) THEN <<"Select preferred appointment time">> ELSE <<>>)
    \o (IF IsSome(pricing) THEN <<"Review pricing details">> ELSE <<>>)
    \o (IF analysis.additional_services = {}
        THEN <<"Consider additional services for bundle savings">> ELSE <<>>)
    \o <<"Confirm service booking">>

(***************************************************************************)
(* OnepathAgentOrchestrator (langchain_agent_system.py).                   *)
(***************************************************************************)
\* for service, keywords in table.items(): first row with a keyword in the
\* text, rows tried in declaration order; default when no row matches
\* the same loop without its break: the last matching row wins
RECURSIVE LastMatch(_, _, _, _)
LastMatch(rows, text, i, default) ==
    IF i > Len(rows) THEN default
    ELSE LET later == LastMatch(rows, text, i + 1, default)
         IN  IF later # default THEN later
             ELSE IF AnyIn(rows[i].keywords, text) THEN rows[i].name
             ELSE default

RECURSIVE FirstMatch(_, _, _, _)
FirstMatch(rows, text, i, default) ==
    IF i > Len(rows) THEN default
    ELSE IF AnyIn(rows[i].keywords, text) THEN rows[i].name
    ELSE FirstMatch(rows, text, i + 1, default)

service_keywords ==
    <<[name |-> "ac_repair",
       keywords |-> {"ac", "air conditioning", "cooling", "hvac", "conditioner"}],
      [name |-> "heating",
       keywords |-> {"heat", "heating", "furnace", "boiler", "warm"}],
      [name |-> "plumbing",
       keywords |-> {"plumb", "water", "leak", "pipe", "drain", "toilet"}],
      [name |-> "electrical",
       keywords |-> {"electric", "power", "outlet", "wiring", "lights"}]>>

urgency_keywords ==
    <<[name |-> "emergency",
       keywords |-> {"emergency", "urgent", "asap", "immediately", "broken",
                     "not working", "dead"}],
      [name |-> "high",
       keywords |-> {"soon", "this week", "quickly", "today", "tomorrow"}],
      [name |-> "normal",
       keywords |-> {"convenient", "schedule", "when possible"}],
      [name |-> "low",
       keywords |-> {"whenever", "no rush", "flexible"}]>>

addon_keywords ==
    <<[name |-> "thermostat_install",
       keywords |-> {"thermostat", "temperature control"}],
      [name |-> "filter_replacement",
       keywords |-> {"filter", "air filter"}],
      [name |-> "duct_cleaning",
       keywords |-> {"duct", "air duct"}],
      [name |-> "maintenance_plan",
       keywords |-> {"maintenance", "service plan", "regular service"}]>>

\* create_analysis_tool().func(customer_message), after json.loads
analyze_request(customer_message) ==
    LET message_lower == Lowered[customer_message]
    IN  [service_type |-> FirstMatch(service_keywords, message_lower, 1, "ac_repair"),
         urgency_level |-> FirstMatch(urgency_keywords, message_lower, 1, "normal"),
         additional_services |->
             {addon_keywords[i].name : i \in
                 {j \in 1..Len(addon_keywords) :
                     AnyIn(addon_keywords[j].keywords, message_lower)}},
         customer_intent |-> "service_request",
         requires_scheduling |->
             In("this week", message_lower) \/ In("today", message_lower)
                 \/ In("tomorrow", message_lower),
         requires_pricing |->
             In("cost", message_lower) \/ In("price", message_lower)
                 \/ In("how much", message_lower)]

\* the analysis of each message, computed once
LangchainAnalysis == [m \in Messages |-> analyze_request(m)]

\* CalendarService.check_availability; slots are dated from tomorrow (day 1)
CalendarService_check_availability(service_type, urgency) ==
    LET slots ==
            IF urgency = "emergency"
            THEN <<[day |-> 1, technician |-> "Emergency Tech Mike",
                    travel_time |-> 30, surcharge |-> 75]>>
            ELSE [i \in 1..3 |->
                    [day |-> i,
                     technician |-> <<"Tech Sarah", "Tech John", "Tech Mike">>[i],
                     travel_time |-> 15, surcharge |-> 0]]
    IN  [available_slots |-> slots,
         earliest_available |-> slots[1].day,
         emergency_available |-> (urgency = "emergency")]

\* ",".join(services) handed to the pricing tool, which splits it on ",",
\* strips each part and drops the empty ones
split_services(additional_services) ==
    {a \in additional_services : Len(a) > 0}

\* create_pricing_tool().func(...), after json.loads
calculate_price(service_type, additional_services, urgency) ==
    PricingService_calculate_pricing(service_type,
                                     split_services(additional_services), urgency)

OnepathAgentOrchestrator_determine_next_steps(result) ==
    LET next_steps ==
            (IF "availability" \in DOMAIN result
             THEN <<"Select preferred appointment time">> ELSE <<>>)
            \o (IF "pricing" \in DOMAIN result
                THEN <<"Review pricing and confirm service">> ELSE <<>>)
            \o (IF "analysis" \in DOMAIN result
                   /\ "additional_services" \in DOMAIN result.analysis
                THEN <<"Consider additional services for bundle savings">>
                ELSE <<>>)
    IN  IF next_steps = <<>>
        THEN <<"Provide any additional requirements or questions">>
        ELSE next_steps

(***************************************************************************)
(* AgentOrchestrator (agent_orchestrator.py) and ConversationState         *)
(* (prompt.py): the parts that read no state.                              *)
(***************************************************************************)
service_patterns ==
    <<[name |-> "ac_repair",
       keywords |-> {"ac", "air conditioning", "cooling", "hvac", "conditioner"}],
      [name |-> "heating",
       keywords |-> {"heat", "heating", "furnace", "boiler", "warm"}],
      [name |-> "plumbing",
       keywords |-> {"plumb", "water", "leak", "pipe", "drain", "toilet"}],
      [name |-> "electrical",
       keywords |-> {"electric", "power", "outlet", "wiring", "lights"}]>>

urgency_patterns ==
    <<[name |-> "emergency",
       keywords |-> {"emergency", "urgent", "asap", "immediately", "broken",
                     "not working", "dead"}],
      [name |-> "high",
       keywords |-> {"this week", "soon", "quickly", "today", "tomorrow"}],
      [name |-> "normal",
       keywords |-> {"convenient", "schedule", "when possible"}],
      [name |-> "low",
       keywords |-> {"whenever", "no rush", "flexible"}]>>

\* a dict with the key set only when the condition holds
KeyIf(cond, key, value) == IF cond THEN [k \in {key} |-> value] ELSE EmptyDict

\* AgentOrchestrator._extract_entities_from_message(message): a key is set
\* only when one of its patterns is in the text
extract_entities_from_message(message) ==
    LET message_lower == Lowered[message]
        service == FirstMatch(service_patterns, message_lower, 1, "")
        urgency == FirstMatch(urgency_patterns, message_lower, 1, "")
    IN  KeyIf(service # "", "service_type", service)
        @@ KeyIf(urgency # "", "urgency", urgency)
        @@ KeyIf(AnyIn({"add", "also", "too", "bundle", "package", "plus",
                        "include"}, message_lower),
                 "bundle_request", TRUE)
        @@ KeyIf(AnyIn({"cost", "price", "how much", "quote", "estimate",
                        "expensive"}, message_lower),
                 "pricing_request", TRUE)
        @@ KeyIf(AnyIn({"when", "schedule", "appointment", "time",
                        "available"}, message_lower),
                 "scheduling_request", TRUE)

\* the entities of each message, computed once
ExtractedEntities == [m \in Messages |-> extract_entities_from_message(m)]

ConversationState_urgency_patterns ==
    <<[name |-> "emergency",
       keywords |-> {"emergency", "urgent", "asap", "immediately", "broken",
                     "not working"}],
      [name |-> "high",
       keywords |-> {"this week", "soon", "quickly", "today", "tomorrow"}],
      [name |-> "normal",
       keywords |-> {"convenient", "schedule", "when possible"}],
      [name |-> "low",
       keywords |-> {"whenever", "no rush", "flexible"}]>>

\* what ConversationState._update_entities_from_message(content) sets
update_entities_from_message(content) ==
    LET content_lower == Lowered[content]
        service == FirstMatch(service_patterns, content_lower, 1, "")
        urgency == FirstMatch(ConversationState_urgency_patterns, content_lower, 1, "")
        location ==
            FirstMatch([i \in 1..6 |->
                          LET w == <<"house", "home", "office", "building",
                                     "apartment", "condo">>[i]
                          IN  [name |-> w, keywords |-> {w}]],
                       content_lower, 1, "")
    IN  KeyIf(service # "", "service_type", service)
        @@ KeyIf(urgency # "", "urgency", urgency)
        @@ KeyIf(AnyIn({"add", "also", "too", "bundle", "package", "plus",
                        "include"}, content_lower),
                 "bundle_request", TRUE)
        @@ KeyIf(location # "", "location_type", location)

UpdatedEntities == [m \in Texts |-> update_entities_from_message(m)]

\* ConversationState.add_message("user", content): the keys the message
\* sets overwrite the stored ones, the others stay
add_message(conversation_state, content) ==
    [messages |-> Append(conversation_state.messages, content),
     extracted_entities |->
         UpdatedEntities[content] @@ conversation_state.extracted_entities]

\* ConversationState()
NewConversationState == [messages |-> <<>>, extracted_entities |-> EmptyDict]

\* AgentOrchestrator._initialize_workflow_context(request_id, request)
initialize_workflow_context(request_id, message) ==
    [request_id |-> request_id,
     customer_message |-> message,
     extracted_entities |-> ExtractedEntities[message],
     conversation_history |-> <<message>>,
     workflow_steps |-> <<>>,
     current_step |-> 0,
     status |-> "initializing",
     error_message |-> None]

\* a planner that appends the pricing stage once for the pricing request
\* and once more for the bundle
determine_agent_chain_pricing_per_reason(entities) ==
    LET bundle == Get(entities, "bundle_request", FALSE)
    IN  <<"customer_relations">>
        \o (IF bundle THEN <<"bundle_optimizer">> ELSE <<>>)
        \o (IF Get(entities, "scheduling_request", FALSE)
               \/ Get(entities, "urgency", "") \in {"emergency", "high"}
            THEN <<"calendar_specialist">> ELSE <<>>)
        \o (IF Get(entities, "pricing_request", FALSE)
            THEN <<"pricing_analyst">> ELSE <<>>)
        \o (IF bundle THEN <<"pricing_analyst">> ELSE <<>>)

\* a planner that looks at the scheduling request only, not at the urgency
determine_agent_chain_ignoring_urgency(entities) ==
    LET bundle == Get(entities, "bundle_request", FALSE)
    IN  <<"customer_relations">>
        \o (IF bundle THEN <<"bundle_optimizer">> ELSE <<>>)
        \o (IF Get(entities, "scheduling_request", FALSE)
            THEN <<"calendar_specialist">> ELSE <<>>)
        \o (IF Get(entities, "pricing_request", FALSE) \/ bundle
            THEN <<"pricing_analyst">> ELSE <<>>)

\* AgentOrchestrator._determine_agent_chain(primary_result, entities)
determine_agent_chain(entities) ==
    LET bundle == Get(entities, "bundle_request", FALSE)
    IN  <<"customer_relations">>
        \o (IF bundle THEN <<"bundle_optimizer">> ELSE <<>>)
        \o (IF Get(entities, "scheduling_request", FALSE)
               \/ Get(entities, "urgency", "") \in {"emergency", "high"}
            THEN <<"calendar_specialist">> ELSE <<>>)
        \o (IF Get(entities, "pricing_request", FALSE) \/ bundle
            THEN <<"pricing_analyst">> ELSE <<>>)

\* AgentOrchestrator._map_agent_to_action(agent_name)
map_agent_to_action(agent_name) ==
    CASE agent_name = "customer_relations" -> "CUSTOMER_FOLLOWUP"
      [] agent_name = "calendar_specialist" -> "CALENDAR_CHECK"
      [] agent_name = "pricing_analyst" -> "PRICING_QUERY"
      [] agent_name = "bundle_optimizer" -> "BUNDLE_ANALYSIS"
      [] OTHER -> "REASON"

\* WorkflowStep(...): the fields the orchestrator reads back
WorkflowStep(agent_name, action_type) ==
    [agent_name |-> agent_name, action_type |-> action_type,
     status |-> "completed"]

(***************************************************************************)
(* ReACTAgent.think_and_act (react_agent.py, not part of the sources): a   *)
(* stage executor.  It returns a result with a confidence and the stage's  *)
(* data, or it raises.                                                     *)
(***************************************************************************)
Confidences == {90}

ActionResults(agent_name) ==
    CASE agent_name = "calendar_specialist" ->
             {[available_slots |-> 3]}
      [] agent_name = "pricing_analyst" ->
             {[total |-> 27000]}
      [] agent_name = "bundle_optimizer" ->
             {[savings |-> 6375]}
      [] OTHER -> {EmptyDict}

think_and_act(agent_name) ==
    {[raised |-> TRUE]}
    \cup {[raised |-> FALSE, confidence |-> c, action_result |-> a] :
             c \in Confidences, a \in ActionResults(agent_name)}

(***************************************************************************)
(* AgentOrchestrator: chain execution and synthesis.                       *)
(***************************************************************************)
\* chain_results[agent_name] = agent_result, or in the except branch
\* chain_results[agent_name] = {"error": str(e), "confidence": 0.0}
store_chain_result(chain_results, agent_name, outcome) ==
    Append(chain_results,
           [agent_name |-> agent_name,
            result |->
                IF outcome.raised
                THEN [error |-> "exception", confidence |-> 0]
                ELSE [confidence |-> outcome.confidence,
                      action_result |-> outcome.action_result]])

\* the loop ends at the first stage that raises
abort_chain(agent_chain, i, raised) ==
    IF raised THEN Len(agent_chain) + 1 ELSE i + 1

\* for agent_name in agent_chain: the except branch falls through to the
\* next stage ("Continue with other agents in chain")
continue_chain(agent_chain, i, raised) == i + 1

\* sum(confidences) / len(confidences), kept as the fraction num / den
overall_confidence(primary_result, chain_results) ==
    LET confidences ==
            <<primary_result.confidence>>
            \o [k \in 1..Len(SelectSeq(chain_results,
                                       LAMBDA r : "confidence" \in DOMAIN r.result))
                  |-> SelectSeq(chain_results,
                                LAMBDA r : "confidence" \in DOMAIN r.result)[k]
                          .result.confidence]
    IN  [num |-> SumOver(confidences, DOMAIN confidences),
         den |-> Len(confidences)]

\* chain_results.get(agent_name), None when absent
ResultOf(chain_results, agent_name) ==
    LET hits == SelectSeq(chain_results, LAMBDA r : r.agent_name = agent_name)
    IN  IF hits = <<>> THEN None ELSE Some(hits[1].result)

\* next steps that name the select-a-time step whenever the calendar stage
\* is among the results, also when it failed or found no slot
synthesize_next_steps_by_presence(chain_results) ==
    LET calendar == ResultOf(chain_results, "calendar_specialist")
        pricing == ResultOf(chain_results, "pricing_analyst")
        bundle == ResultOf(chain_results, "bundle_optimizer")
        data(r) == Get(The(r), "action_result", EmptyDict)
        next_steps ==
            (IF IsSome(calendar)
             THEN <<"Select preferred appointment time from available slots">>
             ELSE <<>>)
            \o (IF IsSome(pricing) /\ Get(data(pricing), "total", 0) # 0
                THEN <<"Review service pricing and confirm booking">>
                ELSE <<>>)
            \o (IF IsSome(bundle) /\ Get(data(bundle), "savings", 0) > 0
                THEN <<"Consider bundle services for additional savings">>
                ELSE <<>>)
    IN  IF next_steps = <<>>
        THEN <<"Provide any additional requirements",
               "Confirm service details and preferences",
               "Schedule appointment when ready">>
        ELSE next_steps

\* AgentOrchestrator._synthesize_next_steps(chain_results, entities)
synthesize_next_steps(chain_results) ==
    LET calendar == ResultOf(chain_results, "calendar_specialist")
        pricing == ResultOf(chain_results, "pricing_analyst")
        bundle == ResultOf(chain_results, "bundle_optimizer")
        data(r) == Get(The(r), "action_result", EmptyDict)
        next_steps ==
            (IF IsSome(calendar) /\ Get(data(calendar), "available_slots", 0) # 0
             THEN <<"Select preferred appointment time from available slots">>
             ELSE <<>>)
            \o (IF IsSome(pricing) /\ Get(data(pricing), "total", 0) # 0
                THEN <<"Review service pricing and confirm booking">>
                ELSE <<>>)
            \o (IF IsSome(bundle) /\ Get(data(bundle), "savings", 0) > 0
                THEN <<"Consider bundle services for additional savings">>
                ELSE <<>>)
    IN  IF next_steps = <<>>
        THEN <<"Provide any additional requirements",
               "Confirm service details and preferences",
               "Schedule appointment when ready">>
        ELSE next_steps

\* AgentOrchestrator._synthesize_response(request_id, context, primary_result,
\* chain_results)
synthesize_response(request_id, context, primary_result, chain_results) ==
    [request_id |-> request_id,
     agent_name |-> "OrchestrationEngine",
     actions_taken |->
         <<"primary_analysis">>
         \o [k \in 1..Len(chain_results) |-> chain_results[k].agent_name],
     result |->
         [primary_analysis |-> primary_result,
          specialized_results |-> chain_results,
          workflow_summary |->
              [total_steps |-> Len(context.workflow_steps),
               agents_involved |->
                   [k \in 1..Len(chain_results) |-> chain_results[k].agent_name],
               context_entities |-> context.extracted_entities]],
     next_steps |-> synthesize_next_steps(chain_results),
     confidence |-> overall_confidence(primary_result, chain_results)]

\* the failure of the recovery agent is not caught
handle_orchestration_error_uncaught(request_id, error_message, recovery) ==
    IF recovery.raised
    THEN [raised |-> "Exception", response |-> None]
    ELSE [raised |-> "",
          response |->
              Some([request_id |-> request_id,
                    agent_name |-> "ErrorRecoverySystem",
                    actions_taken |-> <<"error_detection", "recovery_processing",
                                        "customer_assistance">>,
                    result |-> [original_error |-> error_message,
                                recovery_status |-> "partial_recovery_achieved"],
                    next_steps |->
                        <<"Contact customer service for additional assistance",
                          "Retry request with simplified requirements",
                          "Provide direct contact information for immediate help">>,
                    confidence |-> [num |-> 60, den |-> 1]])]

\* AgentOrchestrator._handle_orchestration_error, from the return of the
\* recovery agent on: the recovery response, or the fallback response when
\* the recovery agent raised
handle_orchestration_error(request_id, error_message, recovery) ==
    [raised |-> "",
     response |->
         IF recovery.raised
         THEN Some([request_id |-> request_id,
                    agent_name |-> "FallbackErrorHandler",
                    actions_taken |-> <<"error_detection", "fallback_response">>,
                    result |-> [error_message |-> error_message,
                                recovery_error |-> "exception",
                                status |-> "fallback_response_activated"],
                    next_steps |->
                        <<"Please contact our customer service team directly",
                          "Provide your request details to our support staff",
                          "We apologize for the technical difficulty">>,
                    confidence |-> [num |-> 30, den |-> 1]])
         ELSE Some([request_id |-> request_id,
                    agent_name |-> "ErrorRecoverySystem",
                    actions_taken |-> <<"error_detection", "recovery_processing",
                                        "customer_assistance">>,
                    result |-> [original_error |-> error_message,
                                recovery_status |-> "partial_recovery_achieved"],
                    next_steps |->
                        <<"Contact customer service for additional assistance",
                          "Retry request with simplified requirements",
                          "Provide direct contact information for immediate help">>,
                    confidence |-> [num |-> 60, den |-> 1]])]

intent_patterns ==
    <<[name |-> "bundle_request",
       keywords |-> {"add", "also", "too", "bundle", "include", "plus"}],
      [name |-> "pricing_query",
       keywords |-> {"cost", "price", "how much", "quote", "expensive"}],
      [name |-> "scheduling_change",
       keywords |-> {"reschedule", "change time", "different day", "earlier",
                     "later"}],
      [name |-> "service_modification",
       keywords |-> {"change", "different", "instead", "modify"}],
      [name |-> "clarification",
       keywords |-> {"what", "how", "when", "why", "explain"}]>>

agent_routing(detected_intent) ==
    CASE detected_intent = "bundle_request" -> "bundle_optimizer"
      [] detected_intent = "pricing_query" -> "pricing_analyst"
      [] detected_intent = "scheduling_change" -> "calendar_specialist"
      [] detected_intent = "service_modification" -> "primary_dispatcher"
      [] detected_intent = "clarification" -> "customer_relations"
      [] detected_intent = "general_followup" -> "customer_relations"

\* AgentOrchestrator._analyze_followup_intent(context, followup_message)
analyze_followup_intent(followup_message) ==
    LET detected_intent ==
            FirstMatch(intent_patterns, Lowered[followup_message], 1,
                       "general_followup")
    IN  [detected_intent |-> detected_intent,
         recommended_agent |-> agent_routing(detected_intent),
         confidence |-> 85]

FollowupIntent == [m \in Texts |-> analyze_followup_intent(m)]

(***************************************************************************)
(* State.                                                                  *)
(***************************************************************************)
VARIABLES
    system,          \* the program this behaviour exercises
    priced,          \* the last call of a pricing engine and what it returned
    clock,           \* datetime.now(), in whole seconds
    simple_sessions, \* SimpleAgentDemo.active_sessions
    simple_reply,    \* what the last call of SimpleAgentDemo returned
    agent,           \* OnepathAgentOrchestrator.agent is not None (an OpenAI
                     \* key was found at construction)
    in_event_loop,   \* the orchestrator's coroutines run inside a running
                     \* asyncio event loop (the usual way), where the
                     \* asyncio.run of a Tool.func raises RuntimeError; or
                     \* they are driven with no loop running
    langchain_sessions, \* OnepathAgentOrchestrator.active_sessions
    langchain_reply, \* what the last call of OnepathAgentOrchestrator
                     \* returned or raised
    planned,         \* the last call of the planner and the chain it returned
    extracted,       \* the text the extractors are called on, how many
                     \* times, and what each call returned
    synthesized,     \* the way a call of process_service_request went after
                     \* its primary analysis, and the next steps of its
                     \* response
    tool_call        \* one call of a tool's execute: the attempts made so
                     \* far and what the call returned or raised

VARIABLES
    active_workflows,    \* AgentOrchestrator.active_workflows
    conversation_states, \* AgentOrchestrator.conversation_states
    processes,           \* the calls of process_service_request in flight, by
                         \* request id: where each stands and its locals
    followups,           \* the calls of handle_followup_request in flight,
                         \* likewise
    performance_metrics, \* AgentOrchestrator.performance_metrics
    returned             \* what the step just taken returned to its caller,
                         \* if it ended a call

function_vars == <<planned, extracted, synthesized, tool_call>>
simple_vars == <<simple_sessions, simple_reply>>
langchain_vars == <<agent, in_event_loop, langchain_sessions, langchain_reply>>
orchestrator_vars == <<active_workflows, conversation_states, processes,
                       followups, performance_metrics, returned>>
vars == <<system, priced, function_vars, clock, simple_vars, langchain_vars, orchestrator_vars>>

Systems == {"pricing", "simple", "langchain", "planner", "extractor",
            "synthesizer"}

(***************************************************************************)
(* The collaborator tools (tool.py).                                       *)
(***************************************************************************)
ToolNames == {"get_availability", "get_pricing"}

\* @retry(stop=stop_after_attempt(3), ...)
stop_after_attempt == 3

\* the body of execute with no try/except around the API call
execute_body_uncaught(tool_name, api_raises) ==
    IF api_raises
    THEN [raised |-> TRUE, value |-> None]
    ELSE [raised |-> FALSE,
          value |-> Some([tool_name |-> tool_name, success |-> TRUE,
                          error_message |-> None])]

\* the body of AvailabilityTool.execute / PricingTool.execute: the try block
\* returns a ToolResult, and an exception raised inside it is caught and
\* turned into a ToolResult with success=False
execute_body(tool_name, api_raises) ==
    [raised |-> FALSE,
     value |-> Some([tool_name |-> tool_name,
                     success |-> ~api_raises,
                     error_message |->
                         IF api_raises THEN Some("exception") ELSE None])]

\* how a stage of a chain run went: it was not planned, its executor raised,
\* it returned without the datum the next steps look for, or with it
StageOutputs == {"absent", "failed", "empty", "present"}

NoStages ==
    [path |-> "none", customer_relations |-> "absent",
     bundle_optimizer |-> "absent", calendar_specialist |-> "absent",
     pricing_analyst |-> "absent", recovery |-> "absent"]

\* the ways a call of process_service_request can go after its primary
\* analysis: the chain runs, each planned stage returning or raising; or the
\* primary analysis raised and the recovery agent returns or raises
WaysToGo ==
    {[NoStages EXCEPT !.path = "chain", !.customer_relations = c,
                      !.bundle_optimizer = b, !.calendar_specialist = k,
                      !.pricing_analyst = p] :
        c \in {"failed", "present"}, b \in StageOutputs, k \in StageOutputs,
        p \in StageOutputs}
    \cup {[NoStages EXCEPT !.path = "recovery", !.recovery = r] :
             r \in {"failed", "present"}}

\* what the executor of the stage did, for think_and_act
OutcomeOf(agent_name, output) ==
    IF output = "failed" THEN [raised |-> TRUE]
    ELSE [raised |-> FALSE,
          confidence |-> 90,
          action_result |->
              CASE agent_name = "calendar_specialist" ->
                       [available_slots |-> IF output = "present" THEN 3 ELSE 0]
                [] agent_name = "pricing_analyst" ->
                       IF output = "present" THEN [total |-> 27000] ELSE EmptyDict
                [] agent_name = "bundle_optimizer" ->
                       [savings |-> IF output = "present" THEN 6375 ELSE 0]
                [] OTHER -> EmptyDict]

\* the chain_results _execute_agent_chain returns when its stages go that way
RECURSIVE ChainResultsOf(_, _, _)
ChainResultsOf(went, agent_chain, i) ==
    IF i = 0 THEN <<>>
    ELSE LET agent_name == agent_chain[i]
             earlier == ChainResultsOf(went, agent_chain, i - 1)
         IN  IF went[agent_name] = "absent" THEN earlier
             ELSE store_chain_result(earlier, agent_name,
                                     OutcomeOf(agent_name, went[agent_name]))

\* the entities a caller may pass to the planner: each key is set or absent
IntentFacts ==
    {KeyIf(b, "bundle_request", TRUE) @@ KeyIf(sc, "scheduling_request", TRUE)
     @@ KeyIf(pr, "pricing_request", TRUE) @@ KeyIf(u # "unset", "urgency", u) :
        b \in BOOLEAN, sc \in BOOLEAN, pr \in BOOLEAN, u \in UrgencyInputs}

\* customer messages held by the sessions other than request_id
RECURSIVE TurnsOf(_, _)
TurnsOf(history, ids) ==
    IF ids = {} THEN 0
    ELSE LET k == CHOOSE x \in ids : TRUE
         IN  Len(history[k]) + TurnsOf(history, ids \ {k})
TurnsElsewhere(history, request_id) ==
    TurnsOf(history, DOMAIN history \ {request_id})

\* request ids a caller may name: the ids of every second of the run, and 0,
\* an id that is never issued
RequestIds == 0..MaxClock

\* the same for the orchestrator: the uuids it issues, and 0, never issued
WorkflowIds == 0..MaxWorkflows

\* f"req_{datetime.now().strftime('%Y%m%d_%H%M%S')}": one id per second
TimestampId(now) == now

NoReply == [op |-> "none"]

\* the state after construction of the program a behaviour exercises
Constructed(systems) ==
    /\ system \in systems
    /\ priced \in [made : {FALSE},
                   engine : IF system = "pricing" THEN Engines ELSE {"none"},
                   service_type : IF system = "pricing" THEN ServiceInputs ELSE {"none"},
                   additional_services :
                       IF system = "pricing" THEN SUBSET AddonIds ELSE {{}},
                   urgency : IF system = "pricing" THEN UrgencyInputs ELSE {"none"},
                   out : {NoBreakdown}]
    /\ planned \in [made : {FALSE},
                    entities : IF system = "planner" THEN IntentFacts
                               ELSE {EmptyDict},
                    chain : {<<>>}]
    /\ extracted \in [message : IF system = "extractor" THEN Texts ELSE {""},
                      results : {<<>>}]
    /\ tool_call \in [tool_name : IF system = "tools" THEN ToolNames ELSE {"none"},
                      attempts : {0},
                      done : {FALSE},
                      raised : {""},
                      value : {None}]
    /\ synthesized \in [made : {FALSE},
                        went : IF system = "synthesizer" THEN WaysToGo
                               ELSE {NoStages},
                        next_steps : {<<>>}]
    /\ clock = 1
    /\ simple_sessions = EmptyDict
    /\ simple_reply = NoReply
    /\ agent \in (IF system = "langchain" THEN BOOLEAN ELSE {FALSE})
    /\ in_event_loop \in (IF system = "langchain" THEN BOOLEAN ELSE {TRUE})
    /\ langchain_sessions = EmptyDict
    /\ langchain_reply = NoReply
    /\ active_workflows = EmptyDict
    /\ conversation_states = EmptyDict
    /\ processes = EmptyDict
    /\ followups = EmptyDict
    /\ performance_metrics = [total_requests |-> 0, successful_completions |-> 0,
                              error_count |-> 0,
                              average_confidence |-> [num |-> 0, den |-> 1]]
    /\ returned = NoReply

Init == Constructed(Systems)

\* AgentOrchestrator()
InitOrchestrator == Constructed({"orchestrator"})

\* one call of an engine on the inputs drawn in Init
Price ==
    /\ system = "pricing"
    /\ ~priced.made
    /\ priced' = [priced EXCEPT
                    !.made = TRUE,
                    !.out = calculate_pricing(priced.engine, priced.service_type,
                                              priced.additional_services,
                                              priced.urgency)]
    /\ UNCHANGED <<system, function_vars, clock, simple_vars, langchain_vars, orchestrator_vars>>

\* AgentOrchestrator._determine_agent_chain(primary_result, entities); the
\* function does not read primary_result
Plan ==
    /\ system = "planner"
    /\ ~planned.made
    /\ planned' = [planned EXCEPT
                     !.made = TRUE,
                     !.chain = determine_agent_chain(planned.entities)]
    /\ UNCHANGED <<system, priced, extracted, synthesized, tool_call, clock,
                   simple_vars, langchain_vars, orchestrator_vars>>

\* the next steps of the response process_service_request returns:
\* _synthesize_next_steps on the results of the chain, or the list of
\* _handle_orchestration_error
Synthesize ==
    /\ system = "synthesizer"
    /\ ~synthesized.made
    /\ LET went == synthesized.went
           response ==
               IF went.path = "chain"
               THEN synthesize_response(
                        1, initialize_workflow_context(1, MsgAcBroken),
                        [confidence |-> 90],
                        ChainResultsOf(went,
                            <<"customer_relations", "bundle_optimizer",
                              "calendar_specialist", "pricing_analyst">>, 4))
               ELSE The(handle_orchestration_error(
                            1, "exception",
                            OutcomeOf("error_recovery", went.recovery)).response)
       IN  synthesized' = [synthesized EXCEPT !.made = TRUE,
                                              !.next_steps = response.next_steps]
    /\ UNCHANGED <<system, priced, planned, extracted, tool_call, clock,
                   simple_vars, langchain_vars, orchestrator_vars>>

\* one attempt of a call of execute under tenacity's retry: the body runs;
\* when it returns, the call returns its value; when it raises, the call is
\* attempted again, and after stop_after_attempt attempts it raises RetryError
ToolExecute ==
    /\ system = "tools"
    /\ ~tool_call.done
    /\ \E api_raises \in BOOLEAN :
          LET outcome == execute_body(tool_call.tool_name, api_raises)
              attempts == tool_call.attempts + 1
          IN  tool_call' =
                  IF ~outcome.raised
                  THEN [tool_call EXCEPT !.attempts = attempts, !.done = TRUE,
                                         !.value = outcome.value]
                  ELSE IF attempts >= stop_after_attempt
                  THEN [tool_call EXCEPT !.attempts = attempts, !.done = TRUE,
                                         !.raised = "RetryError"]
                  ELSE [tool_call EXCEPT !.attempts = attempts]
    /\ UNCHANGED <<system, priced, planned, extracted, synthesized, clock,
                   simple_vars, langchain_vars, orchestrator_vars>>

\* the extractors are called on the text, each call on a fresh dict
Extract ==
    /\ system = "extractor"
    /\ Len(extracted.results) < MaxExtractions
    /\ extracted' =
           [extracted EXCEPT
              !.results =
                 Append(@, [orchestrator |->
                                extract_entities_from_message(extracted.message),
                            conversation |->
                                update_entities_from_message(extracted.message),
                            simple |->
                                SimpleAgentDemo_analyze_customer_request(
                                    extracted.message),
                            langchain |-> analyze_request(extracted.message)])]
    /\ UNCHANGED <<system, priced, planned, synthesized, tool_call, clock,
                   simple_vars, langchain_vars, orchestrator_vars>>

\* a second passes
Tick ==
    /\ system \in {"simple", "langchain"}
    /\ clock < MaxClock
    /\ clock' = clock + 1
    /\ UNCHANGED <<system, priced, function_vars, simple_vars, langchain_vars, orchestrator_vars>>

\* SimpleAgentDemo.process_service_request(message)
SimpleAgentDemo_process_service_request(message) ==
    LET analysis == SimpleAnalysis[message]
        availability ==
            IF analysis.requires_scheduling
            THEN Some(SimpleAgentDemo_check_calendar_availability(
                          analysis.service_type, analysis.urgency))
            ELSE None
        pricing ==
            IF analysis.requires_pricing \/ IsSome(availability)
            THEN Some(SimpleAgentDemo_calculate_pricing(
                          analysis.service_type, analysis.additional_services,
                          analysis.urgency))
            ELSE None
        request_id == TimestampId(clock)
    IN  /\ simple_sessions' =
               Put(simple_sessions, request_id,
                   [analysis |-> analysis,
                    availability |-> availability,
                    pricing |-> pricing,
                    conversation |-> <<message>>])
        /\ simple_reply' =
               [op |-> "process_service_request",
                request_id |-> request_id,
                analysis |-> analysis,
                availability |-> availability,
                pricing |-> pricing,
                next_steps |-> SimpleAgentDemo_determine_next_steps(
                                   analysis, availability, pricing)]

SimpleProcess ==
    /\ system = "simple"
    /\ TurnsElsewhere([k \in DOMAIN simple_sessions |->
                           simple_sessions[k].conversation],
                      TimestampId(clock)) < MaxTurns
    /\ \E message \in Messages : SimpleAgentDemo_process_service_request(message)
    /\ UNCHANGED <<system, priced, function_vars, clock, langchain_vars, orchestrator_vars>>

\* all_services = list(set(original_services + new_services))
merge_services(original_services, new_services) ==
    original_services \cup new_services

\* SimpleAgentDemo.handle_followup(request_id, followup_message)
SimpleAgentDemo_handle_followup(request_id, followup_message) ==
    IF request_id \notin DOMAIN simple_sessions
    THEN /\ simple_reply' = [op |-> "handle_followup", request_id |-> request_id,
                             error |-> "Session not found"]
         /\ UNCHANGED simple_sessions
    ELSE LET session == simple_sessions[request_id]
             conversation == Append(session.conversation, followup_message)
             followup_analysis == SimpleAnalysis[followup_message]
         IN  IF followup_analysis.bundle_request
             THEN LET all_services ==
                          merge_services(session.analysis.additional_services,
                                         followup_analysis.additional_services)
                      updated_pricing ==
                          SimpleAgentDemo_calculate_pricing(
                              session.analysis.service_type, all_services,
                              session.analysis.urgency)
                  IN  /\ simple_sessions' =
                             [simple_sessions EXCEPT ![request_id] =
                                 [session EXCEPT
                                     !.conversation = conversation,
                                     !.pricing = Some(updated_pricing),
                                     !.analysis.additional_services = all_services]]
                      /\ simple_reply' =
                             [op |-> "handle_followup",
                              request_id |-> request_id,
                              updated_services |-> all_services,
                              updated_pricing |-> updated_pricing,
                              bundle_savings |-> updated_pricing.savings]
             ELSE /\ simple_sessions' =
                         [simple_sessions EXCEPT
                             ![request_id].conversation = conversation]
                  /\ simple_reply' =
                         [op |-> "handle_followup",
                          response |-> "I understand your followup. How else can I help you?"]

SimpleFollowup ==
    /\ system = "simple"
    /\ \E request_id \in RequestIds, followup_message \in Messages :
          /\ request_id \in DOMAIN simple_sessions =>
                 TurnsOf([k \in DOMAIN simple_sessions |->
                             simple_sessions[k].conversation],
                         DOMAIN simple_sessions) < MaxTurns
          /\ SimpleAgentDemo_handle_followup(request_id, followup_message)
    /\ UNCHANGED <<system, priced, function_vars, clock, langchain_vars, orchestrator_vars>>

\* what self.agent.ainvoke gives back: the text is the model's, opaque here
LlmOutput == "llm_output"

\* OnepathAgentOrchestrator._process_with_fallback(request): the result, or
\* the RuntimeError of calendar_tool.func inside a running event loop
process_with_fallback(message) ==
    LET analysis_result == LangchainAnalysis[message]
    IN  IF in_event_loop
        THEN [raised |-> "RuntimeError"]
        ELSE [raised |-> "",
              result |->
                [analysis |-> analysis_result,
                 availability |->
                     CalendarService_check_availability(
                         analysis_result.service_type,
                         analysis_result.urgency_level),
                 pricing |->
                     calculate_price(analysis_result.service_type,
                                     analysis_result.additional_services,
                                     analysis_result.urgency_level),
                 tools_used |-> <<"analyze_customer_request",
                                  "check_calendar_availability",
                                  "calculate_service_pricing">>]]

\* OnepathAgentOrchestrator.process_service_request(request); agent_ok: the
\* call of the LangChain agent returned (it is tried only when agent is set)
OnepathAgentOrchestrator_process_service_request(message, agent_ok) ==
    LET request_id == TimestampId(clock)
        outcome ==
            IF agent /\ agent_ok
            THEN [raised |-> "",
                  result |-> [agent_response |-> LlmOutput,
                              analysis_complete |-> TRUE]]
            ELSE process_with_fallback(message)
    IN  IF outcome.raised # ""
        THEN /\ langchain_reply' = [op |-> "process_service_request",
                                    raised |-> outcome.raised]
             /\ UNCHANGED langchain_sessions
        ELSE /\ langchain_sessions' =
                    Put(langchain_sessions, request_id,
                        [original_request |-> message,
                         conversation_history |-> <<message>>,
                         last_result |-> outcome.result,
                         timestamp |-> clock])
             /\ langchain_reply' =
                    [op |-> "process_service_request",
                     raised |-> "",
                     request_id |-> request_id,
                     result |-> outcome.result,
                     next_steps |->
                         OnepathAgentOrchestrator_determine_next_steps(outcome.result),
                     confidence |-> 90,
                     total_cost |->
                         IF "pricing" \in DOMAIN outcome.result
                         THEN Some(outcome.result.pricing.total) ELSE None]

LangchainProcess ==
    /\ system = "langchain"
    /\ TurnsElsewhere([k \in DOMAIN langchain_sessions |->
                           langchain_sessions[k].conversation_history],
                      TimestampId(clock)) < MaxTurns
    /\ \E message \in Messages, agent_ok \in BOOLEAN :
          /\ agent_ok => agent
          /\ OnepathAgentOrchestrator_process_service_request(message, agent_ok)
    /\ UNCHANGED <<system, priced, function_vars, clock, simple_vars, agent, in_event_loop,
                   orchestrator_vars>>

\* OnepathAgentOrchestrator._handle_followup_fallback(followup, session)
handle_followup_fallback(message, session) ==
    LET followup_analysis == LangchainAnalysis[message]
    IN  IF AnyIn({"add", "bundle", "also", "too"}, Lowered[message])
        THEN LET original_analysis == Get(session.last_result, "analysis", EmptyDict)
                 all_services ==
                     merge_services(
                         Get(original_analysis, "additional_services", {}),
                         followup_analysis.additional_services)
             IN  IF in_event_loop
                 THEN [raised |-> "RuntimeError"]
                 ELSE [raised |-> "",
                       result |->
                         [followup_analysis |-> followup_analysis,
                          updated_services |-> all_services,
                          updated_pricing |->
                              calculate_price(
                                  Get(original_analysis, "service_type", "ac_repair"),
                                  all_services,
                                  Get(original_analysis, "urgency_level", "normal"))]]
        ELSE [raised |-> "",
              result |-> [followup_analysis |-> followup_analysis,
                          response |-> "I understand your followup request. Let me help you with that."]]

\* OnepathAgentOrchestrator.handle_followup(followup)
OnepathAgentOrchestrator_handle_followup(request_id, message, agent_ok) ==
    IF request_id \notin DOMAIN langchain_sessions
    THEN /\ langchain_reply' = [op |-> "handle_followup",
                                raised |-> "HTTPException 404"]
         /\ UNCHANGED langchain_sessions
    ELSE LET session ==
                 [langchain_sessions[request_id] EXCEPT
                     !.conversation_history = Append(@, message)]
             outcome ==
                 IF agent /\ agent_ok
                 THEN [raised |-> "",
                       result |-> [agent_response |-> LlmOutput,
                                   context_maintained |-> TRUE]]
                 ELSE handle_followup_fallback(message, session)
         IN  IF outcome.raised # ""
             THEN /\ langchain_sessions' =
                         [langchain_sessions EXCEPT ![request_id] = session]
                  /\ langchain_reply' = [op |-> "handle_followup",
                                         raised |-> outcome.raised]
             ELSE /\ langchain_sessions' =
                         [langchain_sessions EXCEPT ![request_id] =
                             [session EXCEPT !.last_result = outcome.result]]
                  /\ langchain_reply' =
                         [op |-> "handle_followup",
                          raised |-> "",
                          request_id |-> request_id,
                          result |-> outcome.result,
                          next_steps |->
                              OnepathAgentOrchestrator_determine_next_steps(
                                  outcome.result),
                          confidence |-> 85]

LangchainFollowup ==
    /\ system = "langchain"
    /\ \E request_id \in RequestIds, message \in Messages, agent_ok \in BOOLEAN :
          /\ agent_ok => agent
          /\ request_id \in DOMAIN langchain_sessions =>
                 TurnsOf([k \in DOMAIN langchain_sessions |->
                             langchain_sessions[k].conversation_history],
                         DOMAIN langchain_sessions) < MaxTurns
          /\ OnepathAgentOrchestrator_handle_followup(request_id, message, agent_ok)
    /\ UNCHANGED <<system, priced, function_vars, clock, simple_vars, agent, in_event_loop,
                   orchestrator_vars>>

(***************************************************************************)
(* AgentOrchestrator: the handlers.  A handler runs until it awaits a      *)
(* stage executor; other calls may run before the executor returns.        *)
(***************************************************************************)
other_vars == <<system, priced, function_vars, clock, simple_vars, langchain_vars>>

RemoveKey(d, key) == [k \in DOMAIN d \ {key} |-> d[k]]

\* the id of the latest request is issued again
FreshId_reusing_latest ==
    IF active_workflows = EmptyDict THEN 1
    ELSE Cardinality(DOMAIN active_workflows)

\* str(uuid.uuid4()): an id no earlier request has
FreshId == Cardinality(DOMAIN active_workflows) + 1

\* the messages the orchestrator is called with: one per plan and per
\* follow-up intent the four messages give
OrchestratorMessages == {MsgAcBroken, MsgBundleThermostat, MsgHowMuch}
\* the follow-ups its customers send
FollowupMessages == OrchestratorMessages \cup {MsgDifferentInstead}

\* the orchestrator runs alone, or with two customers whose calls interleave
Orchestrating == system \in {"orchestrator", "concurrent"}
\* the requests the callers send; the two concurrent customers are the
\* pair of request ids an interleaving sets against each other
Customers == IF system = "concurrent" THEN 2 ELSE MaxWorkflows
\* the calls the callers make: the concurrent customers make one more, so
\* that a follow-up of one of them meets the other's request
Calls == IF system = "concurrent" THEN MaxCalls + 1 ELSE MaxCalls
\* the request ids the callers name
CallableIds == 0..Customers
\* the concurrent customers send the two requests with chains of two and
\* of three stages, and the follow-up that routes to pricing
RequestMessages ==
    IF system = "concurrent" THEN {MsgAcBroken, MsgBundleThermostat}
    ELSE OrchestratorMessages
FollowupTexts ==
    IF system = "concurrent" THEN {MsgHowMuch} ELSE FollowupMessages

AllHistories ==
    [k \in DOMAIN active_workflows |-> active_workflows[k].conversation_history]

\* process_service_request, up to the await of the primary agent
ProcessStart ==
    /\ Orchestrating
    /\ FreshId <= Customers
    /\ TurnsOf(AllHistories, DOMAIN AllHistories) < Calls
    /\ \E message \in RequestMessages :
          LET request_id == FreshId
          IN  /\ active_workflows' =
                     Put(active_workflows, request_id,
                         initialize_workflow_context(request_id, message))
              /\ conversation_states' =
                     Put(conversation_states, request_id,
                         add_message(NewConversationState, message))
              /\ processes' =
                     Put(processes, request_id,
                         [pc |-> "primary_analysis",
                          primary_result |-> None,
                          agent_chain |-> <<>>,
                          i |-> 0,
                          outcomes |-> <<>>,
                          chain_results |-> <<>>,
                          error_message |-> None])
    /\ performance_metrics' =
           [performance_metrics EXCEPT !.total_requests = @ + 1]
    /\ returned' = NoReply
    /\ UNCHANGED <<other_vars, followups>>

\* the step becomes the only one of the context
record_step_replacing(context, step) ==
    [context EXCEPT !.workflow_steps = <<step>>,
                    !.current_step = @ + 1]

\* context.workflow_steps.append(step); context.current_step += 1
record_step(context, step) ==
    [context EXCEPT !.workflow_steps = Append(@, step),
                    !.current_step = @ + 1]

\* the primary agent returns: _execute_primary_analysis records the step and
\* _execute_agent_chain plans the chain and awaits its first stage; or the
\* primary agent raises: the except branch of process_service_request calls
\* _handle_orchestration_error, which counts the error and awaits the
\* recovery agent
PrimaryReturns ==
    /\ Orchestrating
    /\ \E request_id \in DOMAIN processes :
          /\ processes[request_id].pc = "primary_analysis"
          /\ \E outcome \in think_and_act("primary_dispatcher") :
                LET context == active_workflows[request_id]
                    frame == processes[request_id]
                IN  IF outcome.raised
                    THEN /\ processes' =
                                [processes EXCEPT ![request_id] =
                                    [frame EXCEPT !.pc = "error_recovery",
                                                  !.error_message = Some("exception")]]
                         /\ performance_metrics' =
                                [performance_metrics EXCEPT !.error_count = @ + 1]
                         /\ UNCHANGED active_workflows
                    ELSE /\ active_workflows' =
                                [active_workflows EXCEPT ![request_id] =
                                    record_step(context,
                                        WorkflowStep("primary_dispatcher", "REASON"))]
                         /\ processes' =
                                [processes EXCEPT ![request_id] =
                                    [frame EXCEPT
                                        !.pc = "agent_chain",
                                        !.primary_result =
                                            Some([confidence |-> outcome.confidence]),
                                        !.agent_chain =
                                            determine_agent_chain(
                                                context.extracted_entities),
                                        !.i = 1]]
                         /\ UNCHANGED performance_metrics
    /\ returned' = NoReply
    /\ UNCHANGED <<other_vars, conversation_states, followups>>

\* the awaited stage of the chain returns or raises; the loop goes on to the
\* next stage, and after the last one process_service_request synthesizes
\* the response, marks the workflow completed and returns
StageReturns ==
    /\ Orchestrating
    /\ \E request_id \in DOMAIN processes :
          /\ processes[request_id].pc = "agent_chain"
          /\ LET frame == processes[request_id]
                 agent_name == frame.agent_chain[frame.i]
             IN  \E outcome \in think_and_act(agent_name) :
                   LET chain_results ==
                           store_chain_result(frame.chain_results, agent_name, outcome)
                       outcomes == Append(frame.outcomes, outcome)
                       context ==
                           IF outcome.raised
                           THEN active_workflows[request_id]
                           ELSE record_step(active_workflows[request_id],
                                    WorkflowStep(agent_name,
                                                 map_agent_to_action(agent_name)))
                       next == continue_chain(frame.agent_chain, frame.i,
                                              outcome.raised)
                   IN  IF next <= Len(frame.agent_chain)
                       THEN /\ active_workflows' =
                                   [active_workflows EXCEPT ![request_id] = context]
                            /\ processes' =
                                   [processes EXCEPT ![request_id] =
                                       [frame EXCEPT !.chain_results = chain_results,
                                                     !.outcomes = outcomes,
                                                     !.i = next]]
                            /\ returned' = NoReply
                            /\ UNCHANGED performance_metrics
                       ELSE /\ active_workflows' =
                                   [active_workflows EXCEPT ![request_id] =
                                       [context EXCEPT !.status = "completed"]]
                            /\ processes' = RemoveKey(processes, request_id)
                            /\ performance_metrics' =
                                   [performance_metrics EXCEPT
                                       !.average_confidence =
                                           overall_confidence(
                                               The(frame.primary_result),
                                               chain_results),
                                       !.successful_completions = @ + 1]
                            /\ returned' =
                                   [op |-> "process_service_request",
                                    request_id |-> request_id,
                                    raised |-> "",
                                    primary |-> frame.primary_result,
                                    outcomes |-> outcomes,
                                    response |->
                                        Some(synthesize_response(
                                                 request_id, context,
                                                 The(frame.primary_result),
                                                 chain_results))]
    /\ UNCHANGED <<other_vars, conversation_states, followups>>

\* the recovery agent returns or raises: _handle_orchestration_error returns
\* its response and process_service_request returns it
RecoveryReturns ==
    /\ Orchestrating
    /\ \E request_id \in DOMAIN processes :
          /\ processes[request_id].pc = "error_recovery"
          /\ \E recovery \in think_and_act("error_recovery") :
                LET frame == processes[request_id]
                    end == handle_orchestration_error(
                               request_id, The(frame.error_message), recovery)
                IN  /\ processes' = RemoveKey(processes, request_id)
                    /\ returned' =
                           [op |-> "process_service_request",
                            request_id |-> request_id,
                            raised |-> end.raised,
                            primary |-> None,
                            outcomes |-> <<recovery>>,
                            response |-> end.response]
    /\ UNCHANGED <<other_vars, active_workflows, conversation_states, followups,
                   performance_metrics>>

\* handle_followup_request, up to the await of the agent it routes to; for
\* a workflow that is not there, raise ValueError(f"Workflow ... not found")
\* ahead of the try block
FollowupStart ==
    /\ Orchestrating
    /\ \E request_id \in CallableIds, message \in FollowupTexts :
          /\ request_id \notin DOMAIN followups
          /\ IF request_id \notin DOMAIN active_workflows
             THEN /\ returned' = [op |-> "handle_followup_request",
                                  request_id |-> request_id,
                                  raised |-> "ValueError",
                                  stages_run |-> 0,
                                  response |-> None]
                  /\ UNCHANGED <<active_workflows, conversation_states, followups>>
             ELSE /\ TurnsOf(AllHistories, DOMAIN AllHistories) < Calls
                  /\ conversation_states' =
                         [conversation_states EXCEPT ![request_id] =
                             add_message(@, message)]
                  /\ active_workflows' =
                         [active_workflows EXCEPT
                             ![request_id].conversation_history =
                                 Append(@, message)]
                  /\ followups' =
                         Put(followups, request_id,
                             [pc |-> "followup_processing",
                              followup_analysis |-> FollowupIntent[message]])
                  /\ returned' = NoReply
    /\ UNCHANGED <<other_vars, processes, performance_metrics>>

\* AgentOrchestrator._determine_followup_next_steps(followup_result)
determine_followup_next_steps(needs_continuation) ==
    IF needs_continuation
    THEN <<"Review updated information and options",
           "Confirm preferences and requirements",
           "Proceed with service booking when ready">>
    ELSE <<"All requirements addressed",
           "Ready to proceed with service booking",
           "Contact us for any additional questions">>

\* AgentOrchestrator._handle_followup_error(followup, error_message)
handle_followup_error(request_id) ==
    [request_id |-> request_id,
     agent_name |-> "FollowupErrorHandler",
     actions_taken |-> <<"error_detection", "followup_error_handling">>,
     next_steps |-> <<"Please rephrase your request",
                      "Contact support for assistance",
                      "Try again with simpler language">>,
     confidence |-> [num |-> 40, den |-> 1]]

\* the agent of the follow-up returns: the response is built and the step
\* recorded; or it raises: _handle_followup_error answers
FollowupReturns ==
    /\ Orchestrating
    /\ \E request_id \in DOMAIN followups :
          LET analysis == followups[request_id].followup_analysis
          IN  \E outcome \in think_and_act(analysis.recommended_agent),
                 needs_continuation \in BOOLEAN :
                /\ outcome.raised => ~needs_continuation
                /\ followups' = RemoveKey(followups, request_id)
                /\ returned' =
                       [op |-> "handle_followup_request",
                        request_id |-> request_id,
                        raised |-> "",
                        stages_run |-> 1,
                        response |->
                            IF outcome.raised
                            THEN Some(handle_followup_error(request_id))
                            ELSE Some([request_id |-> request_id,
                                       agent_name |-> "OrchestrationEngine",
                                       actions_taken |->
                                           <<"followup_analysis",
                                             analysis.recommended_agent>>,
                                       next_steps |->
                                           determine_followup_next_steps(
                                               needs_continuation),
                                       confidence |->
                                           [num |-> outcome.confidence,
                                            den |-> 1]])]
                /\ active_workflows' =
                       IF outcome.raised
                       THEN active_workflows
                       ELSE [active_workflows EXCEPT
                                ![request_id].workflow_steps =
                                    Append(@, WorkflowStep("OrchestrationEngine",
                                                           "CUSTOMER_FOLLOWUP"))]
    /\ UNCHANGED <<other_vars, conversation_states, processes,
                   performance_metrics>>

\* an unknown id is answered with the record of a workflow that has not begun
get_workflow_status_default(request_id) ==
    IF request_id \notin DOMAIN active_workflows
    THEN Some([request_id |-> request_id, status |-> "initializing",
               current_step |-> 0, total_steps |-> 0, agents_involved |-> {},
               error_message |-> None])
    ELSE LET context == active_workflows[request_id]
         IN  Some([request_id |-> request_id,
                   status |-> context.status,
                   current_step |-> context.current_step,
                   total_steps |-> Len(context.workflow_steps),
                   agents_involved |->
                       {context.workflow_steps[k].agent_name :
                            k \in 1..Len(context.workflow_steps)},
                   error_message |-> context.error_message])

\* AgentOrchestrator.get_workflow_status(request_id)
get_workflow_status(request_id) ==
    IF request_id \notin DOMAIN active_workflows
    THEN None
    ELSE LET context == active_workflows[request_id]
         IN  Some([request_id |-> request_id,
                   status |-> context.status,
                   current_step |-> context.current_step,
                   total_steps |-> Len(context.workflow_steps),
                   agents_involved |->
                       {context.workflow_steps[k].agent_name :
                            k \in 1..Len(context.workflow_steps)},
                   error_message |-> context.error_message])

GetStatus ==
    /\ Orchestrating
    /\ \E request_id \in CallableIds :
          returned' = [op |-> "get_workflow_status",
                       request_id |-> request_id,
                       result |-> get_workflow_status(request_id)]
    /\ UNCHANGED <<other_vars, active_workflows, conversation_states, processes,
                   followups, performance_metrics>>

\* the agent call that process_service_request awaits never returns and
\* never raises: the await (lines 301, 346, 642) is not wrapped in a
\* timeout, so the coroutine stays suspended there
StageBlocks ==
    /\ Orchestrating
    /\ \E request_id \in DOMAIN processes :
          /\ processes[request_id].pc \in
                 {"primary_analysis", "agent_chain", "error_recovery"}
          /\ processes' = [processes EXCEPT ![request_id].pc = "blocked"]
    /\ returned' = NoReply
    /\ UNCHANGED <<other_vars, active_workflows, conversation_states, followups,
                   performance_metrics>>

NextOrchestrator ==
    \/ ProcessStart
    \/ PrimaryReturns
    \/ StageReturns
    \/ RecoveryReturns
    \/ FollowupStart
    \/ FollowupReturns
    \/ GetStatus

SpecOrchestrator == InitOrchestrator /\ [][NextOrchestrator]_vars

\* one orchestrator serving two customers at once: every handler is a
\* coroutine of one event loop, so the steps of the two interleave at the
\* awaits
InitConcurrent == Constructed({"concurrent"})

SpecConcurrent == InitConcurrent /\ [][NextOrchestrator]_vars

\* the orchestrator, or one call of a collaborator tool
InitRetries == Constructed({"orchestrator", "tools"})

NextRetries ==
    \/ ProcessStart
    \/ PrimaryReturns
    \/ StageReturns
    \/ RecoveryReturns
    \/ FollowupStart
    \/ FollowupReturns
    \/ GetStatus
    \/ ToolExecute

SpecRetries == InitRetries /\ [][NextRetries]_vars

\* the orchestrator with agents that may block.  The event loop resumes a
\* handler as soon as the call it awaits has returned or raised, so each of
\* the return steps is taken when it stays possible.
NextBlocking ==
    \/ ProcessStart
    \/ PrimaryReturns
    \/ StageReturns
    \/ RecoveryReturns
    \/ StageBlocks
    \/ FollowupStart
    \/ FollowupReturns
    \/ GetStatus

SpecBlocking ==
    /\ InitOrchestrator
    /\ [][NextBlocking]_vars
    /\ WF_vars(PrimaryReturns)
    /\ WF_vars(StageReturns)
    /\ WF_vars(RecoveryReturns)
    /\ WF_vars(FollowupReturns)

Next ==
    \/ Price
    \/ Plan
    \/ Extract
    \/ Synthesize
    \/ Tick
    \/ SimpleProcess
    \/ SimpleFollowup
    \/ LangchainProcess
    \/ LangchainFollowup

Spec == Init /\ [][Next]_vars

(***************************************************************************)
(* Properties of the pricing engines.                                      *)
(***************************************************************************)
\* C1: every breakdown an engine computes satisfies, in cents and for every
\* service type (known or not), urgency and add-on set,
\*   total = subtotal - bundleDiscount - sameVisitSavings + urgencySurcharge + tax
\* and subtotal = baseCost + addonCost; the engines compute no same-visit
\* savings, so that term is 0.
C1_TotalIdentity ==
    priced.made =>
        /\ priced.out.subtotal = priced.out.base_cost + priced.out.addon_cost
        /\ priced.out.total =
               priced.out.subtotal - priced.out.bundle_discount - 0
               + priced.out.urgency_surcharge + priced.out.tax

\* a breakdown where every term of the identity is at work: an unknown
\* service type, add-ons (discount), an emergency (surcharge) and tax
C1_Witness ==
    /\ priced.made
    /\ priced.service_type = "unknown"
    /\ priced.urgency = "emergency"
    /\ priced.out.addon_cost > 0
    /\ priced.out.bundle_discount > 0
    /\ priced.out.urgency_surcharge > 0
    /\ priced.out.tax > 0

\* C2: in every computed breakdown the bundle discount is non-zero if and
\* only if the additional services passed to the engine are non-empty, also
\* when the add-on ids passed are in no price table.
C2_DiscountIffAddons ==
    priced.made =>
        (priced.out.bundle_discount # 0 <=> priced.additional_services # {})

\* one add-on, in no price table, and a discount is given
C2_Witness ==
    /\ priced.made
    /\ priced.additional_services = {"gutter_cleaning"}
    /\ priced.out.addon_cost = 0
    /\ priced.out.bundle_discount > 0

(***************************************************************************)
(* Properties of the session stores under follow-ups.                      *)
(***************************************************************************)
\* the additional services a SimpleAgentDemo session holds
SimpleStoredServices(session) == session.analysis.additional_services

\* the additional services an OnepathAgentOrchestrator session holds: those
\* of the stored analysis, or else those of the stored follow-up result
LangchainStoredServices(session) ==
    IF "analysis" \in DOMAIN session.last_result
    THEN Get(session.last_result.analysis, "additional_services", {})
    ELSE Get(session.last_result, "updated_services", {})

StoredEntities(request_id) ==
    active_workflows[request_id].extracted_entities
        @@ conversation_states[request_id].extracted_entities

\* C4: after process("My AC is broken. Can someone fix it this week?") and
\* then handle_followup on the same request id with "Can you add a
\* thermostat installation too and bundle it?", the entities stored for the
\* request have additional_services = {thermostat_install} and
\* bundle_request = true.
C4_FollowupMergesEntities ==
    (/\ returned.op = "handle_followup_request"
     /\ returned.request_id \in DOMAIN active_workflows
     /\ active_workflows[returned.request_id].conversation_history
            = <<MsgAcBroken, MsgBundleThermostat>>)
    => /\ Get(StoredEntities(returned.request_id), "additional_services", {})
              = {"thermostat_install"}
       /\ Get(StoredEntities(returned.request_id), "bundle_request", FALSE)

\* the run of process_service_request that has just returned went through
\* its chain
ChainRan == returned.op = "process_service_request" /\ IsSome(returned.primary)

PlannedChain ==
    determine_agent_chain(active_workflows[returned.request_id].extracted_entities)

\* C5: when a stage executor of the planned chain raises, every other
\* planned stage is still executed and the result of the response holds the
\* result of every stage that succeeded, whatever the plan and the stage
\* that failed.
C5_FailedStageKeepsOthers ==
    ChainRan =>
        /\ Len(returned.outcomes) = Len(PlannedChain)
        /\ \A k \in 1..Len(PlannedChain) :
               ~returned.outcomes[k].raised =>
                   ResultOf(The(returned.response).result.specialized_results,
                            PlannedChain[k])
                       = Some([confidence |-> returned.outcomes[k].confidence,
                               action_result |->
                                   returned.outcomes[k].action_result])

\* a chain of three stages whose first stage raised and whose later stages
\* returned, their results in the response
C5_Witness ==
    /\ ChainRan
    /\ Len(PlannedChain) >= 3
    /\ returned.outcomes[1].raised
    /\ ~returned.outcomes[2].raised
    /\ ~returned.outcomes[3].raised
    /\ IsSome(ResultOf(The(returned.response).result.specialized_results,
                       PlannedChain[3]))

\* the confidences of the stages of the returned run that succeeded
SuccessfulConfidences ==
    LET succeeded == SelectSeq(returned.outcomes, LAMBDA o : ~o.raised)
    IN  [k \in 1..Len(succeeded) |-> succeeded[k].confidence]

\* num / den is the arithmetic mean of the sequence confidences
IsMeanOf(fraction, confidences) ==
    /\ confidences # <<>>
    /\ fraction.num * Len(confidences)
           = SumOver(confidences, DOMAIN confidences) * fraction.den

\* C6: the confidence of the response of process is the arithmetic mean of
\* the confidences of the stages that succeeded; a stage that failed is
\* left out of the mean, not counted as 0.  (The primary analysis may or
\* may not be counted as a stage.)
C6_MeanOfSuccessfulStages ==
    ChainRan =>
        \/ IsMeanOf(The(returned.response).confidence,
                    <<The(returned.primary).confidence>> \o SuccessfulConfidences)
        \/ IsMeanOf(The(returned.response).confidence, SuccessfulConfidences)

\* C7: the status of a stored context only moves initializing -> processing
\* -> completed or initializing -> processing -> error_recovery; when
\* process returns the stored status is completed or error_recovery; a
\* terminal status never changes again, also under later follow-ups.
C7_StatusMachine ==
    [][/\ \A id \in DOMAIN active_workflows :
              LET before == active_workflows[id].status
                  after == active_workflows'[id].status
              IN  before # after =>
                      <<before, after>> \in
                          {<<"initializing", "processing">>,
                           <<"processing", "completed">>,
                           <<"processing", "error_recovery">>}
       /\ returned'.op = "process_service_request" =>
              active_workflows'[returned'.request_id].status
                  \in {"completed", "error_recovery"}
      ]_vars

\* C8: no exception raised inside process escapes it: process returns a
\* response, of confidence exactly 0.6 when the recovery step succeeds and
\* exactly 0.3 when the recovery step itself fails, with next steps in both
\* cases.
C8_ProcessAlwaysResponds ==
    returned.op = "process_service_request" =>
        /\ returned.raised = ""
        /\ IsSome(returned.response)
        /\ The(returned.response).next_steps # <<>>
        /\ ~IsSome(returned.primary) =>
               The(returned.response).confidence =
                   IF returned.outcomes[1].raised
                   THEN [num |-> 30, den |-> 1]
                   ELSE [num |-> 60, den |-> 1]

\* the primary analysis raised and the recovery agent raised too: the
\* fallback response, of confidence 0.3
C8_Witness ==
    /\ returned.op = "process_service_request"
    /\ ~IsSome(returned.primary)
    /\ returned.outcomes[1].raised
    /\ IsSome(returned.response)
    /\ The(returned.response).confidence = [num |-> 30, den |-> 1]

\* C9: handle_followup on a request id that is not in the store fails with
\* NotFound as a typed failure, not with an exception that leaves the
\* handler; it runs no stage and leaves the store as it was.
C9_UnknownFollowupTypedFailure ==
    [][(/\ returned'.op = "handle_followup_request"
        /\ returned'.request_id \notin DOMAIN active_workflows)
       => /\ returned'.raised = ""
          /\ returned'.stages_run = 0
          /\ active_workflows' = active_workflows
          /\ conversation_states' = conversation_states
      ]_vars

\* C10: get_workflow_status on a request id that was never created answers
\* not-found (None), never a default or empty status record, and adds no
\* entry to the store.
C10_UnknownStatusNotFound ==
    [][(/\ returned'.op = "get_workflow_status"
        /\ returned'.request_id \notin DOMAIN active_workflows)
       => /\ returned'.result = None
          /\ active_workflows' = active_workflows
          /\ conversation_states' = conversation_states
      ]_vars

\* the status of an unknown id was asked while a workflow is stored
C10_Witness ==
    /\ returned.op = "get_workflow_status"
    /\ returned.request_id \notin DOMAIN active_workflows
    /\ active_workflows # EmptyDict
    /\ returned.result = None

\* the stages in the order the planner appends them: communication, bundle,
\* calendar, pricing
StageOrder ==
    <<"customer_relations", "bundle_optimizer", "calendar_specialist",
      "pricing_analyst">>
StagePosition(stage) == CHOOSE i \in 1..Len(StageOrder) : StageOrder[i] = stage
StagesOf(chain) == {chain[i] : i \in 1..Len(chain)}

\* C11: for every combination of intent facts the plan is a subsequence of
\* communication, bundle, calendar, pricing in that order, holds no stage
\* twice, and starts with communication.
C11_PlanInStageOrder ==
    planned.made =>
        LET chain == planned.chain
        IN  /\ Len(chain) >= 1
            /\ chain[1] = "customer_relations"
            /\ \A i \in 1..Len(chain) : chain[i] \in StagesOf(StageOrder)
            /\ \A i, j \in 1..Len(chain) :
                   i < j => StagePosition(chain[i]) < StagePosition(chain[j])

\* a plan was made for a customer who asks for a bundle and for a price
C11_Witness ==
    /\ planned.made
    /\ Get(planned.entities, "bundle_request", FALSE)
    /\ Get(planned.entities, "pricing_request", FALSE)
    /\ Len(planned.chain) = 4

\* C12: for every combination of intent facts, bundle is planned iff a
\* bundle was requested, calendar iff scheduling was requested or the
\* urgency is emergency or high, pricing iff pricing was requested or bundle
\* is planned.
C12_StagesIffFacts ==
    planned.made =>
        LET entities == planned.entities
            stages == StagesOf(planned.chain)
        IN  /\ "bundle_optimizer" \in stages
                   <=> Get(entities, "bundle_request", FALSE)
            /\ "calendar_specialist" \in stages
                   <=> (Get(entities, "scheduling_request", FALSE)
                        \/ Get(entities, "urgency", "unset") = "emergency"
                        \/ Get(entities, "urgency", "unset") = "high")
            /\ "pricing_analyst" \in stages
                   <=> (Get(entities, "pricing_request", FALSE)
                        \/ "bundle_optimizer" \in stages)

\* a plan was made for a customer who did not ask for a time nor for a price:
\* calendar is planned for the urgency, pricing for the bundle
C12_Witness ==
    /\ planned.made
    /\ "scheduling_request" \notin DOMAIN planned.entities
    /\ "pricing_request" \notin DOMAIN planned.entities
    /\ Get(planned.entities, "urgency", "unset") = "high"
    /\ planned.chain = StageOrder

\* C13: extracting "My AC is broken. Can someone fix it this week?" yields
\* serviceType = ac_repair, urgency = high and schedulingRequested = true.
C13_AcBrokenExtraction ==
    (extracted.message = MsgAcBroken /\ Len(extracted.results) >= 1) =>
        LET entities == extracted.results[1].orchestrator
        IN  /\ Get(entities, "service_type", "unset") = "ac_repair"
            /\ Get(entities, "urgency", "unset") = "high"
            /\ Get(entities, "scheduling_request", FALSE)

\* C14: for the request "My AC is broken. Can someone fix it this week?" the
\* planner, applied to the facts extracted from that text, returns exactly
\* communication, calendar, pricing.
C14_AcBrokenPlan ==
    \A request_id \in DOMAIN processes :
        (/\ active_workflows[request_id].customer_message = MsgAcBroken
         /\ processes[request_id].pc = "agent_chain") =>
            processes[request_id].agent_chain =
                <<"customer_relations", "calendar_specialist", "pricing_analyst">>

\* C15: pricing the request "My AC is broken. Can someone fix it this week?"
\* (ac_repair, no addons) gives baseCost 225, subtotal 225, bundleDiscount 0,
\* urgencySurcharge 25, tax 20 and total 270.
C15_AcBrokenPricing ==
    (/\ langchain_reply.op = "process_service_request"
     /\ langchain_reply.raised = ""
     /\ "pricing" \in DOMAIN langchain_reply.result
     /\ langchain_sessions[langchain_reply.request_id].original_request
            = MsgAcBroken) =>
        LET pricing == langchain_reply.result.pricing
        IN  /\ pricing.base_cost = 22500
            /\ pricing.addon_cost = 0
            /\ pricing.subtotal = 22500
            /\ pricing.bundle_discount = 0
            /\ pricing.urgency_surcharge = 2500
            /\ pricing.tax = 2000
            /\ pricing.total = 27000

\* the fallback path answered the first follow-up on the AC repair request,
\* and the follow-up asked to add and bundle a thermostat installation
BundleFollowupAnswered ==
    /\ langchain_reply.op = "handle_followup"
    /\ langchain_reply.raised = ""
    /\ "updated_pricing" \in DOMAIN langchain_reply.result
    /\ langchain_sessions[langchain_reply.request_id].conversation_history
           = <<MsgAcBroken, MsgBundleThermostat>>

MatchingRows(rows, text) == {i \in 1..Len(rows) : AnyIn(rows[i].keywords, text)}

\* the field is the name of the first row of the table with a pattern in
\* the text, and is unset when no row has one
FirstCategoryWins(entities, key, rows, text) ==
    LET matching == MatchingRows(rows, text)
    IN  IF matching = {} THEN key \notin DOMAIN entities
        ELSE /\ key \in DOMAIN entities
             /\ \E i \in matching :
                   /\ \A j \in matching : i <= j
                   /\ entities[key] = rows[i].name

NamesOf(rows) == [i \in 1..Len(rows) |-> rows[i].name]

Stages == StagesOf(StageOrder)

\* the intents in the order the spec ranks them
IntentOrder ==
    <<"bundle_request", "pricing_query", "scheduling_change",
      "service_modification", "clarification">>

\* C18: a follow-up on a known request runs exactly one stage executor, never
\* the planned chain; the executor is that of the first intent, in the order
\* bundle request, pricing query, scheduling change, service modification,
\* clarification, general, that has a pattern in the follow-up; and it is
\* one of the four stages calendar, pricing, bundle, communication.
C18_FollowupRunsOneStage ==
    /\ NamesOf(intent_patterns) = IntentOrder
    /\ \A request_id \in DOMAIN followups :
          LET history == active_workflows[request_id].conversation_history
              analysis == followups[request_id].followup_analysis
              matching == MatchingRows(intent_patterns, lower(history[Len(history)]))
          IN  /\ \A i \in matching :
                    (\A j \in matching : i <= j) =>
                        analysis.detected_intent = IntentOrder[i]
              /\ matching = {} => analysis.detected_intent = "general_followup"
              /\ analysis.recommended_agent \in Stages
    /\ (returned.op = "handle_followup_request" /\ returned.raised = "") =>
           returned.stages_run = 1

\* C19: any two top-level requests receive different request ids, whatever
\* the time between them: the id under which process_service_request stores
\* the session of a new request is the id of no session stored before, so
\* no session is overwritten.
C19_RequestIdsAreFresh ==
    [][/\ (simple_reply' # simple_reply
           /\ simple_reply'.op = "process_service_request") =>
              simple_reply'.request_id \notin DOMAIN simple_sessions
       /\ (langchain_reply' # langchain_reply
           /\ langchain_reply'.op = "process_service_request"
           /\ langchain_reply'.raised = "") =>
              langchain_reply'.request_id \notin DOMAIN langchain_sessions]_vars

\* the calls in flight that write to the context of request_id
MutationsInFlight(request_id) ==
    (IF request_id \in DOMAIN processes THEN {"process_service_request"} ELSE {})
    \cup (IF request_id \in DOMAIN followups
          THEN {"handle_followup_request"} ELSE {})

\* C20: for one request id at most one mutating operation (process or
\* follow-up) is in flight at a time, under every interleaving of concurrent
\* calls: no call starts writing to a context while another call that
\* writes to it has not returned.
C20_OneMutationInFlight ==
    \A request_id \in WorkflowIds : Cardinality(MutationsInFlight(request_id)) <= 1

\* C21: a stage executor that fails during a chain run is recorded in the
\* context's steps with status failed, so after any chain run the context
\* holds one step record per planned stage.
C21_FailedStageRecorded ==
    ChainRan =>
        LET steps == active_workflows[returned.request_id].workflow_steps
        IN  \A k \in 1..Len(PlannedChain) :
                \E j \in 1..Len(steps) :
                    /\ steps[j].agent_name = PlannedChain[k]
                    /\ steps[j].status =
                           IF returned.outcomes[k].raised THEN "failed"
                           ELSE "completed"

IsPrefix(s, t) == Len(s) <= Len(t) /\ SubSeq(t, 1, Len(s)) = s

\* the step just taken ended a follow-up that its agent answered
FollowupSucceeded(reply) ==
    /\ reply.op = "handle_followup_request"
    /\ reply.raised = ""
    /\ The(reply.response).agent_name = "OrchestrationEngine"

\* C22: the history and the steps of a stored context are append-only: what
\* a context held before a step of process or follow-up is a prefix of what
\* it holds after it; a follow-up appends exactly one history entry when it
\* starts and, when it succeeds, exactly one step record when it returns.
C22_HistoryAndStepsAppendOnly ==
    [][\A request_id \in DOMAIN active_workflows :
          /\ request_id \in DOMAIN active_workflows'
          /\ LET before == active_workflows[request_id]
                 after == active_workflows'[request_id]
             IN  /\ IsPrefix(before.conversation_history, after.conversation_history)
                 /\ IsPrefix(before.workflow_steps, after.workflow_steps)
                 /\ (request_id \in DOMAIN followups' \ DOMAIN followups) =>
                        /\ Len(after.conversation_history)
                               = Len(before.conversation_history) + 1
                        /\ after.workflow_steps = before.workflow_steps
                 /\ (FollowupSucceeded(returned')
                     /\ returned'.request_id = request_id) =>
                        /\ after.conversation_history = before.conversation_history
                        /\ Len(after.workflow_steps) = Len(before.workflow_steps) + 1]_vars

\* a follow-up succeeded on a context that already held the steps of its
\* chain run
C22_Witness ==
    /\ FollowupSucceeded(returned)
    /\ Len(active_workflows[returned.request_id].conversation_history) = 2
    /\ Len(active_workflows[returned.request_id].workflow_steps) >= 3

\* C23: in every computed breakdown tax is 8% of
\*   subtotal - bundleDiscount - sameVisitSavings + urgencySurcharge,
\* the amount after the discount and after the surcharge; the engines
\* compute no same-visit savings, so that term is 0.  Exact in cents.
C23_TaxOnDiscountedSurchargedAmount ==
    priced.made =>
        100 * priced.out.tax =
            8 * (priced.out.subtotal - priced.out.bundle_discount - 0
                 + priced.out.urgency_surcharge)

\* a breakdown with a discount and a surcharge, where taxing before or after
\* either of them gives different amounts
C23_Witness ==
    /\ priced.made
    /\ priced.urgency = "high"
    /\ priced.out.bundle_discount > 0
    /\ priced.out.urgency_surcharge = 2500
    /\ 100 * priced.out.tax # 8 * priced.out.subtotal
    /\ 100 * priced.out.tax # 8 * (priced.out.subtotal - priced.out.bundle_discount)

\* C24: the next steps of every response of process are non-empty; after a
\* chain run they hold the select-a-time step only when the calendar stage
\* produced slots (not when it failed), the review-pricing step only when
\* the pricing stage produced a total, the bundling step only when the
\* bundle stage reported savings > 0, and they are the fixed three-item
\* default list exactly when none of these apply.
C24_NextStepsFollowStageOutputs ==
    synthesized.made =>
        LET went == synthesized.went
            steps == StagesOf(synthesized.next_steps)
            select == "Select preferred appointment time from available slots"
            review == "Review service pricing and confirm booking"
            bundling == "Consider bundle services for additional savings"
        IN  /\ synthesized.next_steps # <<>>
            /\ went.path = "chain" =>
                   /\ select \in steps <=> went.calendar_specialist = "present"
                   /\ review \in steps <=> went.pricing_analyst = "present"
                   /\ bundling \in steps <=> went.bundle_optimizer = "present"
                   /\ (synthesized.next_steps =
                           <<"Provide any additional requirements",
                             "Confirm service details and preferences",
                             "Schedule appointment when ready">>)
                          <=> (/\ went.calendar_specialist # "present"
                               /\ went.pricing_analyst # "present"
                               /\ went.bundle_optimizer # "present")

\* the calendar stage failed, the pricing stage returned no total and the
\* bundle stage reported savings: the response names the bundling step only
C24_Witness ==
    /\ synthesized.made
    /\ synthesized.went.calendar_specialist = "failed"
    /\ synthesized.went.pricing_analyst = "empty"
    /\ synthesized.went.bundle_optimizer = "present"
    /\ synthesized.next_steps = <<"Consider bundle services for additional savings">>

\* C25: every call of process eventually returns a response, even when an
\* agent call made by a stage never returns: the blocked stage is cut off
\* after a bounded wait and the rest of the chain still runs.
C25_ProcessEventuallyReturns ==
    \A request_id \in WorkflowIds :
        [](request_id \in DOMAIN processes
              => <>(request_id \notin DOMAIN processes))

\* C26: no retries happen inside the core: in a chain run each planned stage
\* executor is invoked at most once (the k-th invocation is that of the k-th
\* planned stage, and no stage is planned twice), and one call of a tool's
\* execute makes at most one attempt and returns a ToolResult, with
\* success = false and an error message on failure, instead of raising.
C26_NoRetries ==
    /\ \A request_id \in DOMAIN processes :
          LET frame == processes[request_id]
          IN  frame.pc = "agent_chain" =>
                  /\ Len(frame.outcomes) = frame.i - 1
                  /\ frame.i <= Len(frame.agent_chain)
                  /\ Cardinality(StagesOf(frame.agent_chain)) = Len(frame.agent_chain)
    /\ ChainRan => Len(returned.outcomes) = Len(PlannedChain)
    /\ tool_call.attempts <= 1
    /\ tool_call.done =>
           /\ tool_call.raised = ""
           /\ IsSome(tool_call.value)
           /\ The(tool_call.value).success <=> ~IsSome(The(tool_call.value).error_message)

\* a call of a tool ended after the API call inside it had failed
C26_Witness ==
    /\ tool_call.done
    /\ tool_call.attempts = 1
    /\ ~The(tool_call.value).success

\* C27: chain runs and follow-ups on different request ids are independent.
\* Under every interleaving of two customers, a step of a call on request
\* id A leaves the stored context (entities, history, steps, status) and
\* the conversation state of every other request id B as they were, a new
\* request changes no context stored before it, and the response of a
\* chain run is the one its own message, its own context and its own stage
\* outcomes give, whether or not another request is being processed.
C27_RequestsAreIndependent ==
    [][LET operated ==
               {id \in CallableIds :
                    \/ (id \in DOMAIN processes) # (id \in DOMAIN processes')
                    \/ /\ id \in DOMAIN processes
                       /\ id \in DOMAIN processes'
                       /\ processes'[id] # processes[id]
                    \/ (id \in DOMAIN followups) # (id \in DOMAIN followups')}
           touched ==
               {id \in DOMAIN active_workflows :
                    \/ id \notin DOMAIN active_workflows'
                    \/ active_workflows'[id] # active_workflows[id]
                    \/ conversation_states'[id] # conversation_states[id]}
       IN  /\ Cardinality(operated) <= 1
           /\ touched \subseteq operated
           /\ performance_metrics'.total_requests
                  > performance_metrics.total_requests => touched = {}
           /\ ChainRan' =>
                  LET own == active_workflows'[returned'.request_id]
                      response == The(returned'.response)
                      entities == ExtractedEntities[own.customer_message]
                  IN  /\ returned'.request_id \in operated
                      /\ response.request_id = returned'.request_id
                      /\ response.actions_taken
                             = <<"primary_analysis">>
                               \o determine_agent_chain(entities)
                      /\ response.result.workflow_summary.context_entities
                             = entities
                      /\ response.result.workflow_summary.total_steps
                             = Len(own.workflow_steps)
                      /\ response.confidence
                             = overall_confidence(
                                   The(returned'.primary),
                                   response.result.specialized_results)]_vars

\* a follow-up on the first request has succeeded while the chain of the
\* second request is still running
C27_Witness ==
    /\ FollowupSucceeded(returned)
    /\ returned.request_id = 1
    /\ 2 \in DOMAIN processes
    /\ processes[2].pc = "agent_chain"
    /\ active_workflows[1].customer_message # active_workflows[2].customer_message

C29_AddonNeverLowersTotal ==
    priced.made =>
        \A a \in AddonIds \ priced.additional_services :
            calculate_pricing(priced.engine, priced.service_type,
                              priced.additional_services \cup {a},
                              priced.urgency).total
                >= priced.out.total

\* C30: in every reachable state of a stored workflow context,
\* current_step equals the number of entries of workflow_steps: each
\* operation that appends a step record (primary analysis, a successful
\* chain stage, a follow-up) also advances current_step by one.
C30_CurrentStepCountsSteps ==
    \A request_id \in DOMAIN active_workflows :
        active_workflows[request_id].current_step
            = Len(active_workflows[request_id].workflow_steps)

====
